---- MODULE Spec2Model ----
(***************************************************************************)
(* The Snapshot Store of the CNFL client (DataProvider): the initial load, *)
(* the realtime change-event reconciliation and the write actions, run     *)
(* against a model of the hosted gateway (tables, commits, change feed).   *)
(* The store is modelled with mock mode off (src/supabase.ts:14).          *)
(* The Session Manager (AuthProvider) is modelled from the provider that   *)
(* calls the gateway client itself (src/contexts/AuthContext.tsx:124-220), *)
(* against a model of the gateway's credentials, session and notifications.*)
(***************************************************************************)
EXTENDS Integers, Sequences, FiniteSets, TLC

\* ------------------------------------------------------------------ bounds
MaxId == 2          \* row ids are 1..MaxId
MaxTime == 2        \* timestamps are 1..MaxTime (seconds since the epoch)
MaxWrites == 2      \* write requests the gateway receives in one behaviour

Ids == 1..MaxId

\* JavaScript's null and undefined, and the empty object {} of a payload
Null == [null |-> TRUE]
Undefined == [undefined |-> TRUE]
EmptyObject == [empty |-> TRUE]
\* an array where null may stand instead
Array(s) == [items |-> s]

\* ------------------------------------------------------ tables and records
\* tableKeyMap with the keys of events and teams exchanged
tableKeyMapSwapped ==
    [profiles |-> "users", events |-> "teams", teams |-> "events",
     players |-> "players", participant_teams |-> "participantTeams",
     replacement_requests |-> "replacementRequests",
     announcements |-> "announcements", chat_messages |-> "chatMessages",
     cnfl_history |-> "cnflHistory"]

tableKeyMap ==
    [profiles |-> "users", events |-> "events", teams |-> "teams",
     players |-> "players", participant_teams |-> "participantTeams",
     replacement_requests |-> "replacementRequests",
     announcements |-> "announcements", chat_messages |-> "chatMessages",
     cnfl_history |-> "cnflHistory"]

ListTables == DOMAIN tableKeyMap
\* every table of the public schema the feed reports: the ten the client
\* knows and one it does not
Tables == ListTables \cup {"site_settings", "audit_log"}

\* the one field of a row besides id that the store or a claim looks at
Contents(t) ==
    CASE t \in {"announcements", "chat_messages"} -> 1..MaxTime
      [] t = "cnfl_history" -> {<<2>>, <<1, 0>>}        \* "2" and "10"
      [] t = "players" -> {<<>>, <<10, 20>>}
      [] t = "site_settings" -> BOOLEAN
      [] OTHER -> {"a", "b"}

Rec(t, i, x) ==
    CASE t \in {"announcements", "chat_messages"} -> [id |-> i, timestamp |-> x]
      [] t = "cnfl_history" -> [id |-> i, seasonNumber |-> x]
      [] t = "players" -> [id |-> i, points |-> x]
      [] t = "site_settings" -> [id |-> i, showParticipantTeams |-> x]
      [] OTHER -> [id |-> i, name |-> x]

Rows(t) == {Rec(t, i, x) : i \in Ids, x \in Contents(t)}

INITIAL_STATE ==
    [users |-> <<>>, events |-> <<>>, teams |-> <<>>, players |-> <<>>,
     participantTeams |-> <<>>, replacementRequests |-> <<>>,
     announcements |-> <<>>, chatMessages |-> <<>>, cnflHistory |-> <<>>,
     siteSettings |-> [showParticipantTeams |-> FALSE]]

ListKeys == DOMAIN INITIAL_STATE \ {"siteSettings"}

\* Array.isArray(state[stateKey]) on the state the effect closed over, which
\* is the first render's INITIAL_STATE
IsArrayInClosure(stateKey) == stateKey \in ListKeys

\* --------------------------------------------------------------- ordering
\* new Date(ts).getTime(): milliseconds of a timestamp held in seconds
getTime(ts) == ts * 1000

\* a.localeCompare(b) on strings of decimal digits: the first differing
\* digit decides, a proper prefix sorts first
RECURSIVE localeCompare(_, _)
localeCompare(a, b) ==
    IF a = <<>> /\ b = <<>> THEN 0
    ELSE IF a = <<>> THEN -1
    ELSE IF b = <<>> THEN 1
    ELSE IF Head(a) < Head(b) THEN -1
    ELSE IF Head(a) > Head(b) THEN 1
    ELSE localeCompare(Tail(a), Tail(b))

\* Compare with the announcements comparator the wrong way round
CompareAscending(stateKey, a, b) ==
    CASE stateKey = "announcements" -> getTime(a.timestamp) - getTime(b.timestamp)
      [] stateKey = "chatMessages" -> getTime(a.timestamp) - getTime(b.timestamp)
      [] stateKey = "cnflHistory" -> localeCompare(a.seasonNumber, b.seasonNumber)
      [] OTHER -> 0

\* the comparator handleDbChange sorts stateKey with; 0 where it does not sort
Compare(stateKey, a, b) ==
    CASE stateKey = "announcements" -> getTime(b.timestamp) - getTime(a.timestamp)
      [] stateKey = "chatMessages" -> getTime(a.timestamp) - getTime(b.timestamp)
      [] stateKey = "cnflHistory" -> localeCompare(a.seasonNumber, b.seasonNumber)
      [] OTHER -> 0

\* Array.prototype.sort is stable: x goes behind every element that does
\* not compare greater than it
RECURSIVE InsertSorted(_, _, _)
InsertSorted(stateKey, sorted, x) ==
    IF sorted = <<>> THEN <<x>>
    ELSE IF Compare(stateKey, Head(sorted), x) > 0 THEN <<x>> \o sorted
    ELSE <<Head(sorted)>> \o InsertSorted(stateKey, Tail(sorted), x)

RECURSIVE SortFrom(_, _, _)
SortFrom(stateKey, sorted, rest) ==
    IF rest = <<>> THEN sorted
    ELSE SortFrom(stateKey, InsertSorted(stateKey, sorted, Head(rest)), Tail(rest))

SortItems(stateKey, items) ==
    IF stateKey \in {"announcements", "chatMessages", "cnflHistory"}
    THEN SortFrom(stateKey, <<>>, items)
    ELSE items

\* ------------------------------------------------------- handleDbChange
SomeId(items, recordId) == \E k \in 1..Len(items) : items[k].id = recordId

\* items.findIndex(item => item.id === recordId), 0 for -1
FindIndex(items, recordId) ==
    IF SomeId(items, recordId)
    THEN CHOOSE k \in 1..Len(items) :
            /\ items[k].id = recordId
            /\ \A j \in 1..(k - 1) : items[j].id # recordId
    ELSE 0

\* the filter with its test the wrong way round
FilterOutInverted(items, recordId) == SelectSeq(items, LAMBDA item : item.id = recordId)

\* prev[stateKey].filter(item => item.id !== recordId)
FilterOut(items, recordId) == SelectSeq(items, LAMBDA item : item.id # recordId)

\* ApplyEvent without the INSERT guard against an id already present
ApplyEventNoGuard(items, eventType, recordId, newRecord) ==
    IF eventType = "INSERT" THEN Append(items, newRecord)
    ELSE IF eventType = "UPDATE" THEN
        LET index == FindIndex(items, recordId)
        IN IF index # 0 THEN [items EXCEPT ![index] = newRecord]
           ELSE Append(items, newRecord)
    ELSE IF eventType = "DELETE" THEN FilterOut(items, recordId)
    ELSE items

\* ApplyEvent dropping an UPDATE whose id is not in the collection
ApplyEventDropsUpdate(items, eventType, recordId, newRecord) ==
    IF eventType = "INSERT" THEN
        IF ~SomeId(items, recordId) THEN Append(items, newRecord) ELSE items
    ELSE IF eventType = "UPDATE" THEN
        LET index == FindIndex(items, recordId)
        IN IF index # 0 THEN [items EXCEPT ![index] = newRecord] ELSE items
    ELSE IF eventType = "DELETE" THEN FilterOut(items, recordId)
    ELSE items

\* ApplyEvent appending every UPDATE
ApplyEventUpdateAppends(items, eventType, recordId, newRecord) ==
    IF eventType = "INSERT" THEN
        IF ~SomeId(items, recordId) THEN Append(items, newRecord) ELSE items
    ELSE IF eventType = "UPDATE" THEN Append(items, newRecord)
    ELSE IF eventType = "DELETE" THEN FilterOut(items, recordId)
    ELSE items

\* ApplyEvent treating an INSERT as an upsert
ApplyEventInsertOverwrites(items, eventType, recordId, newRecord) ==
    IF eventType \in {"INSERT", "UPDATE"} THEN
        LET index == FindIndex(items, recordId)
        IN IF index # 0 THEN [items EXCEPT ![index] = newRecord]
           ELSE Append(items, newRecord)
    ELSE IF eventType = "DELETE" THEN FilterOut(items, recordId)
    ELSE items

ApplyEvent(items, eventType, recordId, newRecord) ==
    IF eventType = "INSERT" THEN
        IF ~SomeId(items, recordId) THEN Append(items, newRecord) ELSE items
    ELSE IF eventType = "UPDATE" THEN
        LET index == FindIndex(items, recordId)
        IN IF index # 0 THEN [items EXCEPT ![index] = newRecord]
           ELSE Append(items, newRecord)
    ELSE IF eventType = "DELETE" THEN FilterOut(items, recordId)
    ELSE items

\* handleDbChange putting the default settings back on a site_settings DELETE
handleDbChangeResetsSettings(prevState, payload) ==
    LET table == payload.table
        eventType == payload.eventType
        newRecord == payload.new
        oldRecord == payload.old
    IN IF table = "site_settings" THEN
           IF eventType = "UPDATE" \/ eventType = "INSERT"
           THEN [prevState EXCEPT !.siteSettings = newRecord]
           ELSE [prevState EXCEPT !.siteSettings = INITIAL_STATE.siteSettings]
       ELSE IF table \notin DOMAIN tableKeyMap THEN prevState
       ELSE IF ~IsArrayInClosure(tableKeyMap[table]) THEN prevState
       ELSE LET stateKey == tableKeyMap[table]
                recordId == IF eventType = "DELETE" THEN oldRecord.id ELSE newRecord.id
                items == ApplyEvent(prevState[stateKey], eventType, recordId, newRecord)
            IN [prevState EXCEPT ![stateKey] = SortItems(stateKey, items)]

handleDbChange(prevState, payload) ==
    LET table == payload.table
        eventType == payload.eventType
        newRecord == payload.new
        oldRecord == payload.old
    IN IF table = "site_settings" THEN
           IF eventType = "UPDATE" \/ eventType = "INSERT"
           THEN [prevState EXCEPT !.siteSettings = newRecord]
           ELSE prevState
       ELSE IF table \notin DOMAIN tableKeyMap THEN prevState
       ELSE IF ~IsArrayInClosure(tableKeyMap[table]) THEN prevState
       ELSE LET stateKey == tableKeyMap[table]
                recordId == IF eventType = "DELETE" THEN oldRecord.id ELSE newRecord.id
                items == ApplyEvent(prevState[stateKey], eventType, recordId, newRecord)
            IN [prevState EXCEPT ![stateKey] = SortItems(stateKey, items)]

\* ------------------------------------------------------------ the gateway
VARIABLES
    db,         \* the hosted store: table -> set of rows, ids unique per table
    feedTable,  \* the table whose traffic this behaviour follows
    writes,     \* write requests received so far
    channel,    \* "none", "joining", "joined", "removed"
    queue       \* change events the channel has not yet handed to the client

VARIABLES
    state,      \* useState<AppState>
    loading,    \* useState(true)
    mounted,    \* the provider is mounted
    fetchPc,    \* fetchData: "idle", "reading", "resolved", "done"
    res         \* the ten results Promise.all resolved with

VARIABLES
    last,       \* what the latest step did, as its caller or a reader saw it
    merged      \* per id of feedTable: the latest change event reconciled

VARIABLES
    credentials, \* the gateway's identities (an identity's id is its email's)
    session,     \* the gateway's session of this client, or Null
    broken,      \* the stored session can no longer be resolved
    listener,    \* "none", "subscribed", "listening", "unsubscribed"
    authQueue    \* session-change notifications not yet handed to the listener

VARIABLES
    user,        \* useState<User | null>(null)
    authLoading, \* the AuthProvider's useState(true)
    authMounted, \* the AuthProvider is mounted
    initPc,      \* getInitialUser: "idle", "getSession", "profile", "done"
    resolving    \* the updateUserProfile calls awaiting their profile row

VARIABLES
    signedOut    \* the latest notification handed to the listener carried no
                 \* session, or logout() has finished since

authVars == <<credentials, session, broken, listener, authQueue, user,
              authLoading, authMounted, initPc, resolving, signedOut>>

storeVars == <<feedTable, channel, queue, state, loading, mounted, fetchPc,
               res, merged>>

vars == <<db, feedTable, writes, channel, queue, state, loading, mounted,
          fetchPc, res, last, merged, authVars>>

IdsOf(rows) == {r.id : r \in rows}

Seed(t) ==
    CASE t \in {"announcements", "chat_messages"} -> Rec(t, 1, 1)
      [] t = "cnfl_history" -> Rec(t, 1, <<2>>)
      [] t = "players" -> Rec(t, 1, <<>>)
      [] t = "site_settings" -> Rec(t, 1, TRUE)
      [] OTHER -> Rec(t, 1, "a")

\* text order of the store's collation on strings of digits
RECURSIVE TextLeq(_, _)
TextLeq(a, b) ==
    IF a = <<>> THEN TRUE
    ELSE IF b = <<>> THEN FALSE
    ELSE IF Head(a) # Head(b) THEN Head(a) < Head(b)
    ELSE TextLeq(Tail(a), Tail(b))

\* .order(column, { ascending }) of the three ordered reads
InRequestedOrder(t, s) ==
    \A k \in 1..(Len(s) - 1) :
        CASE t = "announcements" -> s[k].timestamp >= s[k + 1].timestamp
          [] t = "chat_messages" -> s[k].timestamp <= s[k + 1].timestamp
          [] t = "cnfl_history" -> TextLeq(s[k].seasonNumber, s[k + 1].seasonNumber)
          [] OTHER -> TRUE

\* the sequences a select('*') of table t may answer with
SelectAll(t) ==
    {s \in [1..Cardinality(db[t]) -> db[t]] :
        /\ \A a, b \in DOMAIN s : a # b => s[a] # s[b]
        /\ InRequestedOrder(t, s)}

\* .limit(1).single(): the row, or the no-row-found error PGRST116
SelectSingle(t) ==
    IF db[t] = {} THEN {[data |-> Null, error |-> [code |-> "PGRST116"]]}
    ELSE {[data |-> r, error |-> Null] : r \in db[t]}

ReadResults(t) ==
    IF t = "site_settings" THEN SelectSingle(t)
    ELSE {[data |-> Array(s), error |-> Null] : s \in SelectAll(t)}

\* a read that failed: no row found, or any other gateway error
FailedReads == {[data |-> Null, error |-> [code |-> c]] : c \in {"PGRST116", "500"}}

ClientTables == ListTables \cup {"site_settings"}

\* the payload of the change feed for one committed row change
Payload(t, eventType, new, old) ==
    [table |-> t, eventType |-> eventType, new |-> new, old |-> old]

Emit(events) ==
    queue' = IF channel = "joined" THEN queue \o events ELSE queue

\* one committed row change of table t: the gateway's answer to the writer,
\* the table afterwards and the events the feed reports
GatewayWrite(t, op, i, x) ==
    LET rows == db[t]
        exists == i \in IdsOf(rows)
        new == Rec(t, i, x)
        inserted == [error |-> Null, data |-> new, rows |-> rows \cup {new},
                     events |-> <<Payload(t, "INSERT", new, EmptyObject)>>]
        updated == [error |-> Null, data |-> new,
                    rows |-> {r \in rows : r.id # i} \cup {new},
                    events |-> <<Payload(t, "UPDATE", new, [id |-> i])>>]
        deleted == [error |-> Null, data |-> Null,
                    rows |-> {r \in rows : r.id # i},
                    events |-> <<Payload(t, "DELETE", EmptyObject, [id |-> i])>>]
        untouched == [error |-> Null, data |-> Null, rows |-> rows, events |-> <<>>]
        noRow == [untouched EXCEPT !.error = [code |-> "PGRST116"]]
    IN CASE op = "insert" -> inserted
         [] op = "update" -> IF exists THEN updated ELSE noRow
         [] op = "updateVoid" ->
                IF exists THEN [updated EXCEPT !.data = Null] ELSE untouched
         [] op = "delete" -> IF exists THEN deleted ELSE untouched
         [] op = "upsert" -> IF exists THEN updated ELSE inserted

\* a write the gateway refused (transport, authorization, constraint)
GatewayRefusal(t) ==
    [error |-> [code |-> "500"], data |-> Null, rows |-> db[t], events |-> <<>>]

NoEvent == [eventType |-> "none", fresh |-> FALSE]

\* ------------------------------------------------- the effect: fetchData
Init ==
    /\ feedTable \in Tables
    /\ db = [t \in Tables |-> {Seed(t)}]
    /\ writes = 0
    /\ channel = "none"
    /\ queue = <<>>
    /\ state = INITIAL_STATE
    /\ loading = TRUE
    /\ mounted = TRUE
    /\ fetchPc = "idle"
    /\ res = <<>>
    /\ last = [kind |-> "init"]
    /\ merged = [i \in Ids |-> NoEvent]
    /\ credentials = {1}
    /\ session = Null
    /\ broken = FALSE
    /\ listener = "none"
    /\ authQueue = <<>>
    /\ user = Null
    /\ authLoading = TRUE
    /\ authMounted = TRUE
    /\ initPc = "idle"
    /\ resolving = <<>>
    /\ signedOut = FALSE

\* an effect that calls fetchData again after a load that published nothing
MountRetries ==
    /\ mounted
    /\ \/ fetchPc = "idle"
       \/ fetchPc = "done" /\ last.kind = "load" /\ ~last.published
    /\ loading' = TRUE
    /\ fetchPc' = "reading"
    /\ channel' = IF fetchPc = "idle" THEN "joining" ELSE channel
    /\ last' = [kind |-> "mount"]
    /\ UNCHANGED <<authVars, db, feedTable, writes, queue, state, mounted, res, merged>>

\* useEffect(() => { fetchData(); ...; channel.on(...).subscribe(); }, [])
Mount ==
    /\ mounted /\ fetchPc = "idle"
    /\ loading' = TRUE
    /\ fetchPc' = "reading"
    /\ channel' = "joining"
    /\ last' = [kind |-> "mount"]
    /\ UNCHANGED <<authVars, db, feedTable, writes, queue, state, mounted, res, merged>>

\* the gateway has joined the channel: commits from now on are reported
Subscribed ==
    /\ channel = "joining"
    /\ channel' = "joined"
    /\ last' = [kind |-> "subscribed"]
    /\ UNCHANGED <<authVars, db, feedTable, writes, queue, state, loading, mounted,
                   fetchPc, res, merged>>

\* the gateway answers the batch of ten reads from the tables as they are
\* now; the read of feedTable may fail with the error `bad` instead
ReadAll(failed, bad) ==
    /\ fetchPc = "reading"
    /\ failed \subseteq {feedTable} \cap ClientTables
    /\ \E own \in ReadResults(IF feedTable \in ClientTables THEN feedTable ELSE "events") :
          res' = [t \in ClientTables |->
                    IF t \in failed THEN bad
                    ELSE IF t = feedTable THEN own
                    ELSE CHOOSE r \in ReadResults(t) : TRUE]
    /\ fetchPc' = "resolved"
    /\ last' = [kind |-> "read"]
    /\ UNCHANGED <<authVars, db, feedTable, writes, channel, queue, state, loading,
                   mounted, merged>>

\* checkError(res, name): throws on an error other than PGRST116
checkErrorThrows(r) == r.error # Null /\ r.error.code # "PGRST116"
\* ... and otherwise returns res.data || []
checkError(r) == IF r.data # Null THEN r.data.items ELSE <<>>

\* the object fetchData hands to setState
LoadedState(rs) ==
    [users |-> checkError(rs["profiles"]),
     events |-> checkError(rs["events"]),
     teams |-> checkError(rs["teams"]),
     players |-> checkError(rs["players"]),
     participantTeams |-> checkError(rs["participant_teams"]),
     replacementRequests |-> checkError(rs["replacement_requests"]),
     announcements |-> checkError(rs["announcements"]),
     chatMessages |-> checkError(rs["chat_messages"]),
     cnflHistory |-> checkError(rs["cnfl_history"]),
     siteSettings |-> IF rs["site_settings"].data # Null
                      THEN rs["site_settings"].data
                      ELSE [showParticipantTeams |-> FALSE]]

\* the reads whose checkError call throws
LoadThrows(rs) == \E t \in ListTables : checkErrorThrows(rs[t])

\* fetchData after the await: setState(...) unless checkError threw, then
\* finally setLoading(false); React drops both once the provider is unmounted
FetchSettle ==
    /\ fetchPc = "resolved"
    /\ LET published == mounted /\ ~LoadThrows(res)
       IN /\ state' = IF published THEN LoadedState(res) ELSE state
          /\ merged' = IF published
                       THEN [i \in Ids |-> [merged[i] EXCEPT !.fresh = FALSE]]
                       ELSE merged
          /\ last' = [kind |-> "load", published |-> published,
                      fatal |-> {t \in ClientTables :
                                   res[t].error # Null /\ res[t].error.code # "PGRST116"},
                      noRow |-> {t \in ClientTables :
                                   res[t].error # Null /\ res[t].error.code = "PGRST116"}]
    /\ loading' = IF mounted THEN FALSE ELSE loading
    /\ fetchPc' = "done"
    /\ res' = <<>>
    /\ UNCHANGED <<authVars, db, feedTable, writes, channel, queue, mounted>>

\* a channel that hands over the newest event first
DeliverNewestFirst ==
    /\ channel = "joined" /\ queue # <<>>
    /\ LET payload == queue[Len(queue)]
           isList == payload.table \in ListTables
           recordId == IF payload.eventType = "DELETE" THEN payload.old.id
                       ELSE payload.new.id
       IN /\ state' = handleDbChange(state, payload)
          /\ merged' = IF isList
                       THEN [merged EXCEPT ![recordId] =
                               [eventType |-> payload.eventType,
                                new |-> payload.new, fresh |-> TRUE]]
                       ELSE merged
          /\ last' = [kind |-> "event", payload |-> payload,
                      had |-> isList /\ SomeId(state[tableKeyMap[payload.table]], recordId)]
    /\ queue' = SubSeq(queue, 1, Len(queue) - 1)
    /\ UNCHANGED <<authVars, db, feedTable, writes, channel, loading, mounted, fetchPc, res>>

\* the channel hands the next change event to handleDbChange
Deliver ==
    /\ channel = "joined" /\ queue # <<>>
    /\ LET payload == Head(queue)
           isList == payload.table \in ListTables
           recordId == IF payload.eventType = "DELETE" THEN payload.old.id
                       ELSE payload.new.id
       IN /\ state' = handleDbChange(state, payload)
          /\ merged' = IF isList
                       THEN [merged EXCEPT ![recordId] =
                               [eventType |-> payload.eventType,
                                new |-> payload.new, fresh |-> TRUE]]
                       ELSE merged
          /\ last' = [kind |-> "event", payload |-> payload,
                      had |-> isList /\ SomeId(state[tableKeyMap[payload.table]], recordId)]
    /\ queue' = Tail(queue)
    /\ UNCHANGED <<authVars, db, feedTable, writes, channel, loading, mounted, fetchPc, res>>

\* a cleanup that leaves the channel subscribed
UnmountKeepsChannel ==
    /\ mounted /\ fetchPc # "idle"
    /\ mounted' = FALSE
    /\ last' = [kind |-> "unmount"]
    /\ UNCHANGED <<authVars, db, feedTable, writes, channel, queue, state, loading,
                   fetchPc, res, merged>>

\* the effect's cleanup: supabase.removeChannel(channel)
Unmount ==
    /\ mounted /\ fetchPc # "idle"
    /\ mounted' = FALSE
    /\ channel' = "removed"
    /\ queue' = <<>>
    /\ last' = [kind |-> "unmount"]
    /\ UNCHANGED <<authVars, db, feedTable, writes, state, loading, fetchPc, res, merged>>

\* ---------------------------------------------------------- write actions
\* the gateway call each action makes: its table, its operation, and whether
\* the action returns the call's data ("data") or nothing ("void")
ActionCalls ==
    [createEvent |-> [table |-> "events", op |-> "insert", returns |-> "data"],
     updateEvent |-> [table |-> "events", op |-> "update", returns |-> "data"],
     deleteEvent |-> [table |-> "events", op |-> "delete", returns |-> "void"],
     addTeam |-> [table |-> "teams", op |-> "insert", returns |-> "data"],
     updateTeam |-> [table |-> "teams", op |-> "update", returns |-> "data"],
     deleteTeam |-> [table |-> "teams", op |-> "delete", returns |-> "void"],
     addPlayer |-> [table |-> "players", op |-> "insert", returns |-> "data"],
     updatePlayer |-> [table |-> "players", op |-> "update", returns |-> "data"],
     deletePlayer |-> [table |-> "players", op |-> "delete", returns |-> "void"],
     updatePlayerPoints |->
        [table |-> "players", op |-> "updateVoid", returns |-> "void"],
     updateReplacementRequest |->
        [table |-> "replacement_requests", op |-> "updateVoid", returns |-> "void"],
     addReplacementRequest |->
        [table |-> "replacement_requests", op |-> "insert", returns |-> "data"],
     addAnnouncement |-> [table |-> "announcements", op |-> "insert", returns |-> "data"],
     deleteAnnouncement |-> [table |-> "announcements", op |-> "delete", returns |-> "void"],
     addChatMessage |-> [table |-> "chat_messages", op |-> "insert", returns |-> "data"],
     updateSiteSettings |-> [table |-> "site_settings", op |-> "upsert", returns |-> "data"],
     addHistory |-> [table |-> "cnfl_history", op |-> "insert", returns |-> "data"],
     updateHistory |-> [table |-> "cnfl_history", op |-> "update", returns |-> "data"],
     deleteHistory |-> [table |-> "cnfl_history", op |-> "delete", returns |-> "void"],
     addParticipantTeam |->
        [table |-> "participant_teams", op |-> "insert", returns |-> "data"],
     updateParticipantTeam |->
        [table |-> "participant_teams", op |-> "update", returns |-> "data"],
     updateUser |-> [table |-> "profiles", op |-> "update", returns |-> "data"]]

DeleteActions == {"deleteEvent", "deleteTeam", "deletePlayer",
                  "deleteAnnouncement", "deleteHistory"}

\* ActionOutcome rethrowing the gateway's error to the caller
ActionOutcomeThrows(returns, answer) ==
    IF returns = "data"
    THEN [threw |-> answer.error # Null,
          value |-> IF answer.error # Null THEN Null ELSE answer.data]
    ELSE [threw |-> answer.error # Null, value |-> Undefined]

\* ActionOutcome with the test of the error the wrong way round
ActionOutcomeInverted(returns, answer) ==
    IF returns = "data"
    THEN [threw |-> FALSE,
          value |-> IF answer.error = Null THEN Null ELSE answer.data]
    ELSE [threw |-> FALSE, value |-> Undefined]

\* handleSupabaseError(error, context): logs, and returns the error
handleSupabaseError(error) == error

\* what the action's promise settles with, given the gateway's answer
ActionOutcome(returns, answer) ==
    IF returns = "data"
    THEN [threw |-> FALSE,
          value |-> IF handleSupabaseError(answer.error) # Null THEN Null
                    ELSE answer.data]
    ELSE [threw |-> FALSE, value |-> Undefined]

\* a write action that puts the gateway's answer into the snapshot itself
StateAfterActionOptimistic(answer) ==
    IF answer.events # <<>> THEN handleDbChange(state, answer.events[1]) ELSE state

\* the state and loading flag after a write action: it sets neither
StateAfterAction(answer) == state
LoadingAfterAction(answer) == loading

\* a call of one of the single-row actions with the row (i, x); the gateway
\* refuses it (then the row plays no part) or commits it
CallAction(name, i, x, refused) ==
    LET call == ActionCalls[name]
        t == call.table
        op == IF call.op = "upsert" /\ i \notin IdsOf(db[t]) THEN "insert" ELSE call.op
        answer == IF refused THEN GatewayRefusal(t) ELSE GatewayWrite(t, op, i, x)
    IN /\ mounted /\ fetchPc # "idle"
       /\ t = feedTable
       /\ ~refused /\ op = "insert" => i \notin IdsOf(db[t])
       /\ writes < MaxWrites
       /\ db' = [db EXCEPT ![t] = answer.rows]
       /\ writes' = writes + 1
       /\ Emit(answer.events)
       /\ state' = StateAfterAction(answer)
       /\ loading' = LoadingAfterAction(answer)
       /\ last' = [kind |-> "action", name |-> name, error |-> answer.error,
                   data |-> answer.data, outcome |-> ActionOutcome(call.returns, answer)]
       /\ UNCHANGED <<authVars, feedTable, channel, mounted, fetchPc, res, merged>>

\* addBulkPlayers(players): every player gets points [] and a fresh id
CallAddBulkPlayers(newIds, refused) ==
    LET t == "players"
        playersWithPoints == {Rec(t, i, <<>>) : i \in newIds}
        order == CHOOSE s \in [1..Cardinality(newIds) -> newIds] :
                    \A a, b \in DOMAIN s : a < b => s[a] < s[b]
        answer ==
            IF refused THEN GatewayRefusal(t)
            ELSE [error |-> Null,
                  data |-> Array([k \in DOMAIN order |-> Rec(t, order[k], <<>>)]),
                  rows |-> db[t] \cup playersWithPoints,
                  events |-> [k \in DOMAIN order |->
                                Payload(t, "INSERT", Rec(t, order[k], <<>>), EmptyObject)]]
    IN /\ mounted /\ fetchPc # "idle"
       /\ t = feedTable
       /\ newIds # {} /\ newIds \cap IdsOf(db[t]) = {}
       /\ writes + Cardinality(newIds) <= MaxWrites
       /\ db' = [db EXCEPT ![t] = answer.rows]
       /\ writes' = writes + Cardinality(newIds)
       /\ Emit(answer.events)
       /\ state' = StateAfterAction(answer)
       /\ loading' = LoadingAfterAction(answer)
       /\ last' = [kind |-> "action", name |-> "addBulkPlayers",
                   error |-> answer.error, data |-> answer.data, outcome |-> ActionOutcome("data", answer)]
       /\ UNCHANGED <<authVars, feedTable, channel, mounted, fetchPc, res, merged>>

\* a commit by a client of the gateway, as the store sees it
ExternalWrite(op, i, x) ==
    LET t == feedTable
        answer == GatewayWrite(t, op, i, x)
    IN /\ mounted /\ fetchPc # "idle"
       /\ writes < MaxWrites
       /\ IF op = "insert" THEN i \notin IdsOf(db[t]) ELSE i \in IdsOf(db[t])
       /\ db' = [db EXCEPT ![t] = answer.rows]
       /\ writes' = writes + 1
       /\ Emit(answer.events)
       /\ last' = [kind |-> "external"]
       /\ UNCHANGED <<authVars, feedTable, state, loading, mounted, channel, fetchPc, res, merged>>

\* the steps of the store itself
StoreStep ==
    \/ Mount
    \/ Subscribed
    \/ \E failed \in SUBSET ({feedTable} \cap ClientTables), bad \in FailedReads :
          ReadAll(failed, bad)
    \/ FetchSettle
    \/ Deliver
    \/ Unmount

\* The store under the commits of the gateway's clients.  A commit of this
\* client's own write actions reaches the store as any other commit does,
\* through the feed, so ExternalWrite stands for those too.
Next ==
    \/ StoreStep
    \/ \E op \in {"insert", "update", "delete"}, i \in Ids :
          \E x \in Contents(feedTable) : ExternalWrite(op, i, x)

Spec == Init /\ [][Next]_vars

\* The store under its own write actions, each with its result.
NextActions ==
    \/ StoreStep
    \/ \E name \in {n \in DOMAIN ActionCalls : ActionCalls[n].table = feedTable} :
          \/ \E i \in Ids, x \in Contents(feedTable) : CallAction(name, i, x, FALSE)
          \/ CallAction(name, 1, CHOOSE x \in Contents(feedTable) : TRUE, TRUE)
    \/ \E newIds \in SUBSET Ids, refused \in BOOLEAN : CallAddBulkPlayers(newIds, refused)

SpecActions == Init /\ [][NextActions]_vars

\* ------------------------------------------- the gateway's sessions
Passwords == {"", "good", "bad"}

\* the gateway's user object of identity i, and the profile row register makes
AuthUser(i) == [id |-> i, email |-> i]
ProfileRow(i, role) ==
    [id |-> i, fullName |-> "n", email |-> i, fbLink |-> "f", role |-> role]

\* the gateway resolves the stored session: a session it cannot resolve any
\* more is reported as an error with no session, and dropped
SessionResolved ==
    IF broken THEN [session |-> Null, error |-> [message |-> "Invalid Refresh Token"]]
    ELSE [session |-> session, error |-> Null]

Notification(event, sess) == [event |-> event, session |-> sess]

EmitAuth(notifications) ==
    authQueue' = IF listener \in {"subscribed", "listening"}
                 THEN authQueue \o notifications ELSE authQueue

\* .from('profiles').select('*').eq('id', id).single()
SelectProfile(i) ==
    LET rows == {r \in db["profiles"] : r.id = i}
    IN IF rows = {} THEN [data |-> Null, error |-> [code |-> "PGRST116"]]
       ELSE [data |-> CHOOSE r \in rows : TRUE, error |-> Null]

\* auth.signInWithPassword({ email, password })
SignInAnswer(email, password, refused) ==
    IF refused THEN [error |-> [message |-> "Failed to fetch"]]
    ELSE IF email \in credentials /\ password = "good" THEN [error |-> Null]
    ELSE [error |-> [message |-> "Invalid login credentials"]]

\* auth.signOut()
SignOutAnswer(refused) ==
    IF refused THEN [error |-> [message |-> "Failed to fetch"]] ELSE [error |-> Null]

\* how the gateway takes a signUp: it answers it, it cannot be reached, or
\* it resolves with neither an error nor a user (data.user is User | null)
SignUpOutcomes == {"answered", "refused", "nouser"}

\* auth.signUp({ email, password })
SignUpAnswer(email, password, outcome) ==
    IF outcome = "refused"
    THEN [data |-> [user |-> Null], error |-> [message |-> "Failed to fetch"]]
    ELSE IF outcome = "nouser" THEN [data |-> [user |-> Null], error |-> Null]
    ELSE IF email \in credentials
    THEN [data |-> [user |-> Null], error |-> [message |-> "User already registered"]]
    ELSE IF password = ""
    THEN [data |-> [user |-> Null], error |-> [message |-> "Signup requires a valid password"]]
    ELSE [data |-> [user |-> AuthUser(email)], error |-> Null]

\* auth.updateUser({ password })
UpdateUserAnswer(password, refused) ==
    IF refused THEN [error |-> [message |-> "Failed to fetch"]]
    ELSE IF session = Null \/ broken THEN [error |-> [message |-> "Auth session missing!"]]
    ELSE [error |-> Null]

\* ------------------------------------------------- the Session Manager
\* the provider with the profiles table as the gateway holds it: the row of
\* identity 1 or none, and the stored session: none, identity 1's, or one
\* that can no longer be resolved
InitAuth ==
    /\ feedTable = "profiles"
    /\ \E rows \in {{}, {ProfileRow(1, "ADMIN")}} :
          db = [t \in Tables |-> IF t = "profiles" THEN rows ELSE {Seed(t)}]
    /\ writes = 0
    /\ channel = "none"
    /\ queue = <<>>
    /\ state = INITIAL_STATE
    /\ loading = TRUE
    /\ mounted = TRUE
    /\ fetchPc = "idle"
    /\ res = <<>>
    /\ last = [kind |-> "init"]
    /\ merged = [i \in Ids |-> NoEvent]
    /\ credentials = {1}
    /\ session \in {Null, [user |-> AuthUser(1)]}
    /\ broken \in {b \in BOOLEAN : b => session # Null}
    /\ listener = "none"
    /\ authQueue = <<>>
    /\ user = Null
    /\ authLoading = TRUE
    /\ authMounted = TRUE
    /\ initPc = "idle"
    /\ resolving = <<>>
    /\ signedOut = FALSE

\* the effect: getInitialUser() is called and the listener registered
AuthMount ==
    /\ authMounted /\ initPc = "idle"
    /\ initPc' = "getSession"
    /\ listener' = "subscribed"
    /\ last' = [kind |-> "authMount"]
    /\ UNCHANGED <<db, writes, storeVars, credentials, session, broken, authQueue,
                   user, authLoading, authMounted, resolving,
                   signedOut>>

\* the gateway tells a new listener the session it starts with
EmitInitialSession ==
    /\ listener = "subscribed"
    /\ listener' = "listening"
    /\ authQueue' = Append(authQueue, Notification("INITIAL_SESSION", SessionResolved.session))
    /\ session' = SessionResolved.session
    /\ broken' = FALSE
    /\ last' = [kind |-> "initialSession"]
    /\ UNCHANGED <<db, writes, storeVars, credentials, user, authLoading,
                   authMounted, initPc, resolving, signedOut>>

\* setUser and setLoading of a provider that may be gone: React drops both
\* once the provider is unmounted
SetUser(value) == user' = IF authMounted THEN value ELSE user
SetLoading(value) == authLoading' = IF authMounted THEN value ELSE authLoading

\* getInitialUser up to its first await's answer: no session, and loading is
\* cleared; a session, and updateUserProfile is awaited
GetInitialSession ==
    /\ initPc = "getSession"
    /\ LET answer == SessionResolved
       IN /\ session' = answer.session
          /\ broken' = FALSE
          /\ IF answer.session # Null
             THEN /\ resolving' = Append(resolving, [origin |-> "startup", event |-> "none",
                                                     user |-> answer.session.user])
                  /\ initPc' = "profile"
                  /\ UNCHANGED authLoading
             ELSE /\ SetLoading(FALSE)
                  /\ initPc' = "done"
                  /\ UNCHANGED resolving
          /\ last' = [kind |-> "getSession", session |-> answer.session,
                      error |-> answer.error]
    /\ UNCHANGED <<db, writes, storeVars, credentials, listener, authQueue, user,
                   authMounted, signedOut>>

\* the notification kinds after which the listener clears the loading flag
ClearsLoading(event) == event \in {"SIGNED_IN", "SIGNED_OUT", "USER_UPDATED"}

\* the listener raising the loading flag again for the other kinds
LoadingAfterNotificationReloads(event) == IF ClearsLoading(event) THEN FALSE ELSE TRUE

\* the loading flag after the listener handled a notification:
\* if (event is one of the three) setLoading(false), else it is left alone
LoadingAfterNotification(event) == IF ClearsLoading(event) THEN FALSE ELSE authLoading

\* the listener is handed the next notification: without a session it sets
\* the user to null and is done; with one it awaits updateUserProfile
Notify ==
    /\ listener \in {"subscribed", "listening"} /\ authQueue # <<>>
    /\ LET n == Head(authQueue)
       IN /\ IF n.session # Null
             THEN /\ resolving' = Append(resolving, [origin |-> "notification",
                                                     event |-> n.event,
                                                     user |-> n.session.user])
                  /\ UNCHANGED <<user, authLoading>>
             ELSE /\ SetUser(Null)
                  /\ SetLoading(LoadingAfterNotification(n.event))
                  /\ UNCHANGED resolving
          /\ last' = [kind |-> "notify", event |-> n.event, session |-> n.session,
                      others |-> Len(resolving), was |-> authLoading]
    /\ authQueue' = Tail(authQueue)
    /\ signedOut' = (Head(authQueue).session = Null)
    /\ UNCHANGED <<db, writes, storeVars, credentials, session, broken, listener,
                   authMounted, initPc>>

\* the User built from the gateway's user and its profile row
MakeUser(supabaseUser, profile) ==
    [id |-> supabaseUser.id, email |-> supabaseUser.email,
     fullName |-> profile.fullName, fbLink |-> profile.fbLink, role |-> profile.role]

\* updateUserProfile leaving the user alone when the profile read failed
UserAfterProfileKeeps(supabaseUser, answer) ==
    IF answer.data # Null THEN MakeUser(supabaseUser, answer.data) ELSE user

\* updateUserProfile after its await: the user it leaves
UserAfterProfile(supabaseUser, answer) ==
    IF answer.data # Null THEN MakeUser(supabaseUser, answer.data)
    ELSE IF answer.error # Null THEN Null
    ELSE user

\* getInitialUser returning without the setLoading(false) after its await
ClearsAfterListenerOnly(call) == ClearsLoading(call.event)

\* the caller of an awaited updateUserProfile clears the loading flag:
\* getInitialUser always, the listener for the kinds of ClearsLoading
ClearsAfter(call) == call.origin = "startup" \/ ClearsLoading(call.event)

RemoveAt(s, k) == [j \in 1..(Len(s) - 1) |-> IF j < k THEN s[j] ELSE s[j + 1]]

\* the profile read of one awaited updateUserProfile is answered (or fails),
\* and its caller runs on: getInitialUser clears the loading flag, the
\* listener clears it for the kinds of ClearsLoading
ResolveProfile(k, failed) ==
    /\ k \in DOMAIN resolving
    /\ LET call == resolving[k]
           answer == IF failed THEN [data |-> Null, error |-> [code |-> "500"]]
                     ELSE SelectProfile(call.user.id)
       IN /\ SetUser(UserAfterProfile(call.user, answer))
          /\ SetLoading(IF ClearsAfter(call) THEN FALSE
                        ELSE LoadingAfterNotification(call.event))
          /\ initPc' = IF call.origin = "startup" THEN "done" ELSE initPc
          /\ last' = [kind |-> "resolve", origin |-> call.origin, event |-> call.event,
                      user |-> call.user, answer |-> answer, held |-> user,
                      others |-> Len(resolving) - 1, was |-> authLoading]
    /\ resolving' = RemoveAt(resolving, k)
    /\ UNCHANGED <<db, writes, storeVars, credentials, session, broken, listener,
                   authQueue, authMounted, signedOut>>

\* the effect's cleanup: authListener.subscription.unsubscribe()
AuthUnmount ==
    /\ authMounted /\ initPc # "idle"
    /\ authMounted' = FALSE
    /\ listener' = "unsubscribed"
    /\ authQueue' = <<>>
    /\ last' = [kind |-> "authUnmount"]
    /\ UNCHANGED <<db, writes, storeVars, credentials, session, broken, user,
                   authLoading, initPc, resolving, signedOut>>

\* the gateway refreshes the session's token
TokenRefreshed ==
    /\ session # Null /\ ~broken
    /\ writes < MaxWrites
    /\ writes' = writes + 1
    /\ EmitAuth(<<Notification("TOKEN_REFRESHED", session)>>)
    /\ last' = [kind |-> "refresh"]
    /\ UNCHANGED <<db, storeVars, credentials, session, broken, listener, user,
                   authLoading, authMounted, initPc, resolving, signedOut>>

\* the provider renders its children, the callers of its operations, only
\* while it is mounted and not loading
ChildrenRendered == authMounted /\ ~authLoading

\* { error: error ? { message: error.message } : null }
ErrorResult(error) ==
    [error |-> IF error # Null THEN [message |-> error.message] ELSE Null]

\* login with a setUser of its own on success
UserAfterLoginSetsUser(email, answer) ==
    IF answer.error = Null /\ SelectProfile(email).data # Null
    THEN MakeUser(AuthUser(email), SelectProfile(email).data) ELSE user

\* login returning a message of its own in place of the gateway's
LoginResultGeneric(answer) ==
    [error |-> IF answer.error # Null THEN [message |-> "Login failed."] ELSE Null]

\* the user after login: login calls neither setUser nor setLoading
UserAfterLogin(email, answer) == user
LoginResult(answer) == ErrorResult(answer.error)

login(email, password, refused) ==
    LET answer == SignInAnswer(email, password, refused)
        signedIn == [user |-> AuthUser(email)]
    IN /\ ChildrenRendered
       /\ writes < MaxWrites
       /\ writes' = writes + 1
       /\ IF answer.error = Null
          THEN /\ session' = signedIn
               /\ broken' = FALSE
               /\ EmitAuth(<<Notification("SIGNED_IN", signedIn)>>)
          ELSE UNCHANGED <<session, broken, authQueue>>
       /\ user' = UserAfterLogin(email, answer)
       /\ last' = [kind |-> "login", email |-> email, answer |-> answer,
                   result |-> LoginResult(answer)]
       /\ UNCHANGED <<db, storeVars, credentials, listener, authLoading, authMounted,
                      initPc, resolving, signedOut>>

\* logout clearing the user only when the gateway signed out
UserAfterLogoutOnSuccess(answer) == IF answer.error = Null THEN Null ELSE user

\* the user after logout: await signOut(), then setUser(null)
UserAfterLogout(answer) == Null

logout(refused) ==
    LET answer == SignOutAnswer(refused)
    IN /\ ChildrenRendered
       /\ writes < MaxWrites
       /\ writes' = writes + 1
       /\ IF answer.error = Null
          THEN /\ session' = Null
               /\ broken' = FALSE
               /\ EmitAuth(<<Notification("SIGNED_OUT", Null)>>)
          ELSE UNCHANGED <<session, broken, authQueue>>
       /\ user' = UserAfterLogout(answer)
       /\ signedOut' = TRUE
       /\ last' = [kind |-> "logout", answer |-> answer, held |-> user]
       /\ UNCHANGED <<db, storeVars, credentials, listener, authLoading, authMounted,
                      initPc, resolving>>

\* register inserting the profile whatever signUp answered
InsertIssuedAlways(signUp) == TRUE

\* register issues the profile insert when signUp gave no error and a user
InsertIssued(signUp) == signUp.error = Null /\ signUp.data.user # Null

\* the row register inserts into profiles
RegisterRow(dataUser, fullName, email, fbLink) ==
    [id |-> dataUser.id, fullName |-> fullName, email |-> email, fbLink |-> fbLink,
     role |-> "PARTICIPANT"]

\* register reporting a failed profile insert as it reports a failed signUp
RegisterResultGeneric(signUp, issued, profileError) ==
    IF signUp.error # Null THEN [error |-> [message |-> signUp.error.message]]
    ELSE IF issued /\ profileError # Null
    THEN [error |-> [message |-> "Failed to fetch"]]
    ELSE [error |-> Null]

\* what register returns
RegisterResult(signUp, issued, profileError) ==
    IF signUp.error # Null THEN [error |-> [message |-> signUp.error.message]]
    ELSE IF issued /\ profileError # Null
    THEN [error |-> [message |->
            "Registration succeeded, but failed to create user profile."]]
    ELSE [error |-> Null]

register(email, password, outcome, refusedInsert) ==
    LET signUp == SignUpAnswer(email, password, outcome)
        issued == InsertIssued(signUp)
        dataUser == IF signUp.data.user # Null THEN signUp.data.user ELSE AuthUser(email)
        row == RegisterRow(dataUser, "n", email, "f")
        profileError ==
            IF ~issued THEN Null
            ELSE IF refusedInsert THEN [code |-> "500"]
            ELSE IF row.id \in IdsOf(db["profiles"]) THEN [code |-> "23505"]
            ELSE Null
        inserted == issued /\ profileError = Null
    IN /\ ChildrenRendered
       /\ writes < MaxWrites
       /\ writes' = writes + 1
       /\ credentials' = IF signUp.error = Null /\ signUp.data.user # Null
                         THEN credentials \cup {email} ELSE credentials
       /\ db' = IF inserted THEN [db EXCEPT !["profiles"] = @ \cup {row}] ELSE db
       /\ Emit(IF inserted THEN <<Payload("profiles", "INSERT", row, EmptyObject)>>
               ELSE <<>>)
       /\ last' = [kind |-> "register", email |-> email, signUp |-> signUp,
                   issued |-> issued, row |-> row, profileError |-> profileError,
                   result |-> RegisterResult(signUp, issued, profileError)]
       /\ UNCHANGED <<feedTable, channel, state, loading, mounted, fetchPc, res,
                      merged, session, broken, listener, authQueue, user,
                      authLoading, authMounted, initPc, resolving,
                      signedOut>>

\* updatePassword asking the gateway whatever the password
IsEmptyNever(password) == FALSE

\* !password
IsEmpty(password) == password = ""

updatePassword(password, refused) ==
    LET local == IsEmpty(password)
        answer == UpdateUserAnswer(password, refused)
        result == IF local THEN [error |-> [message |-> "Password cannot be empty."]]
                  ELSE ErrorResult(answer.error)
    IN /\ ChildrenRendered
       /\ ~local => writes < MaxWrites
       /\ writes' = IF local THEN writes ELSE writes + 1
       /\ IF ~local /\ answer.error = Null
          THEN EmitAuth(<<Notification("USER_UPDATED", session)>>)
          ELSE UNCHANGED authQueue
       /\ last' = [kind |-> "updatePassword", password |-> password,
                   calls |-> IF local THEN 0 ELSE 1,
                   answer |-> IF local THEN Null ELSE answer, result |-> result]
       /\ UNCHANGED <<db, storeVars, credentials, session, broken, listener, user,
                      authLoading, authMounted, initPc, resolving, signedOut>>

\* The Session Manager under its callers and the gateway's notifications.
NextAuth ==
    \/ AuthMount
    \/ EmitInitialSession
    \/ GetInitialSession
    \/ Notify
    \/ \E k \in 1..MaxWrites + 2, failed \in BOOLEAN : ResolveProfile(k, failed)
    \/ AuthUnmount
    \/ TokenRefreshed
    \/ \E email \in Ids, password \in Passwords, refused \in BOOLEAN :
          login(email, password, refused)
    \/ \E refused \in BOOLEAN : logout(refused)
    \/ \E email \in Ids, password \in Passwords :
          \E outcome \in SignUpOutcomes, refusedInsert \in BOOLEAN :
             register(email, password, outcome, refusedInsert)
    \/ \E password \in Passwords, refused \in BOOLEAN : updatePassword(password, refused)

SpecAuth == InitAuth /\ [][NextAuth]_vars

\* ... where the effect runs and every gateway call of the startup is
\* answered: getSession, and the profile reads that are awaited
SpecAuthFair ==
    /\ SpecAuth
    /\ WF_vars(AuthMount)
    /\ WF_vars(GetInitialSession)
    /\ WF_vars(\E k \in 1..MaxWrites + 2, failed \in BOOLEAN : ResolveProfile(k, failed))

\* The two providers, each on its own: the store under the commits to the
\* profiles table, or the Session Manager.  They share no state, so a
\* behaviour runs the one that was mounted first.
StoreAlone == initPc = "idle" /\ Next
SessionManagerAlone == fetchPc = "idle" /\ NextAuth
NextProviders == StoreAlone \/ SessionManagerAlone

SpecProviders == InitAuth /\ [][NextProviders]_vars

\* ------------------------------------------------------------- properties
Elements(items) == {items[k] : k \in 1..Len(items)}
CountId(items, i) == Cardinality({k \in 1..Len(items) : items[k].id = i})

\* the collection feedTable maps to, <<>> when it maps to none
FeedItems == IF feedTable \in ListTables THEN state[tableKeyMap[feedTable]] ELSE <<>>

\* C1: no list collection of the snapshot ever holds two entries with the
\* same id, whatever the order of change events and of the publication of
\* the initial load
C1_UniqueIds ==
    \A key \in ListKeys : \A i \in Ids : CountId(state[key], i) <= 1

\* an INSERT event reached the store after the load had published its row
C1_Witness ==
    /\ fetchPc = "done"
    /\ last.kind = "event" /\ last.payload.eventType = "INSERT" /\ last.had
    /\ CountId(FeedItems, last.payload.new.id) = 1

\* C2: after a sequence of change events applied to a snapshot, an id whose
\* last event is an INSERT or UPDATE has exactly one element in the
\* collection, an id whose last event is a DELETE has none
C2_LastEventDecides ==
    \A i \in Ids :
        merged[i].fresh =>
            /\ merged[i].eventType \in {"INSERT", "UPDATE"} => CountId(FeedItems, i) = 1
            /\ merged[i].eventType = "DELETE" => CountId(FeedItems, i) = 0

\* two events applied in a row: one id ends deleted, another updated or
\* inserted
C2_Witness ==
    \E i, j \in Ids :
        /\ merged[i].fresh /\ merged[i].eventType = "DELETE"
        /\ merged[j].fresh /\ merged[j].eventType \in {"INSERT", "UPDATE"}
        /\ CountId(FeedItems, i) = 0 /\ CountId(FeedItems, j) = 1

\* C3: announcements are sorted by timestamp non-increasing, chatMessages by
\* timestamp non-decreasing, cnflHistory by seasonNumber non-decreasing as
\* strings; and an INSERT of a1 (T2) into announcements [a0 (T1)], T1 < T2,
\* gives [a1, a0]
C3_Sorted ==
    /\ \A k \in 1..(Len(state.announcements) - 1) :
          state.announcements[k].timestamp >= state.announcements[k + 1].timestamp
    /\ \A k \in 1..(Len(state.chatMessages) - 1) :
          state.chatMessages[k].timestamp <= state.chatMessages[k + 1].timestamp
    /\ \A k \in 1..(Len(state.cnflHistory) - 1) :
          TextLeq(state.cnflHistory[k].seasonNumber, state.cnflHistory[k + 1].seasonNumber)
    /\ \A a0 \in Elements(state.announcements) :
          ( /\ last.kind = "event" /\ last.payload.table = "announcements"
            /\ last.payload.eventType = "INSERT" /\ ~last.had
            /\ Elements(state.announcements) = {a0, last.payload.new}
            /\ a0.timestamp < last.payload.new.timestamp )
          => state.announcements = <<last.payload.new, a0>>

\* the scenario: the load published [a0], then the INSERT of the later a1
\* was reconciled
C3_Witness ==
    /\ fetchPc = "done"
    /\ last.kind = "event" /\ last.payload.table = "announcements"
    /\ last.payload.eventType = "INSERT" /\ ~last.had
    /\ Len(state.announcements) = 2
    /\ state.announcements[1] = last.payload.new
    /\ state.announcements[2].timestamp < state.announcements[1].timestamp

\* C4: reconciling the same INSERT event a second time leaves the snapshot
\* as the first reconciliation left it
C4_InsertIdempotent ==
    \A r \in Rows(feedTable) :
        LET e == Payload(feedTable, "INSERT", r, EmptyObject)
        IN handleDbChange(handleDbChange(state, e), e) = handleDbChange(state, e)

\* an INSERT event for a row the snapshot already held with that content
C4_Witness ==
    /\ last.kind = "event" /\ last.payload.eventType = "INSERT" /\ last.had
    /\ last.payload.new \in Elements(FeedItems)
    /\ handleDbChange(state, last.payload) = state

\* C5: once the initial load and a delivered change event have both been
\* processed, the snapshot reflects the event, also when the event was
\* reconciled before the load (read before the event's commit) published
C5_EventsSurviveLoad ==
    ( /\ mounted /\ queue = <<>>
      /\ last.kind = "load" /\ last.published )
    => \A i \in Ids :
          /\ merged[i].eventType \in {"INSERT", "UPDATE"}
                => merged[i].new \in Elements(FeedItems)
          /\ merged[i].eventType = "DELETE" => CountId(FeedItems, i) = 0

\* C6: a load one of whose reads failed with an error other than
\* no-row-found publishes nothing and clears the loading flag
C6_FailedLoadPublishesNothing ==
    (mounted /\ last.kind = "load" /\ last.fatal # {})
    => (~last.published /\ loading = FALSE)

\* C7: a no-row-found SiteSettings read publishes the default singleton, any
\* other error of the SiteSettings read aborts the load
C7_SiteSettingsRead ==
    (mounted /\ last.kind = "load")
    => /\ ("site_settings" \in last.noRow /\ last.fatal = {})
            => /\ last.published
               /\ state.siteSettings = [showParticipantTeams |-> FALSE]
       /\ "site_settings" \in last.fatal => ~last.published

\* C8: a write action, confirmed or refused, changes neither the snapshot
\* nor the loading flag; the snapshot changes only by a reconciled change
\* event or the publication of the initial load
C8_WritesLeaveSnapshot ==
    [][ /\ last'.kind = "action" => (state' = state /\ loading' = loading)
        /\ state' # state => last'.kind \in {"event", "load"} ]_vars

\* a confirmed write whose change event the store has yet to reconcile
C8_Witness ==
    /\ fetchPc = "done" /\ channel = "joined"
    /\ last.kind = "action" /\ last.error = Null
    /\ queue # <<>>
    /\ db[feedTable] # {Seed(feedTable)}

\* the actions that return nothing to their caller
VoidActions == DeleteActions \cup {"updatePlayerPoints", "updateReplacementRequest"}

\* C9 as stated: a write the gateway reports an error for returns null, void
\* if it is a delete action, without throwing
C9_FailedWriteNullOrVoidForDelete ==
    (last.kind = "action" /\ last.error # Null)
    => /\ ~last.outcome.threw
       /\ last.outcome.value = IF last.name \in DeleteActions THEN Undefined ELSE Null

\* C9 amended: a write the gateway reports an error for returns null, or
\* void if the action returns nothing (the delete actions, updatePlayerPoints
\* and updateReplacementRequest), without throwing; never a record
C9_FailedWriteNullOrVoid ==
    (last.kind = "action" /\ last.error # Null)
    => /\ ~last.outcome.threw
       /\ last.outcome.value = IF last.name \in VoidActions THEN Undefined ELSE Null

\* the gateway refused updatePlayerPoints
C9_Witness ==
    /\ last.kind = "action" /\ last.error # Null
    /\ last.name = "updatePlayerPoints"
    /\ last.outcome = [threw |-> FALSE, value |-> Undefined]

\* the rows an answer's data names
DataRows(data) == IF "items" \in DOMAIN data THEN Elements(data.items) ELSE {data}

\* C10 as stated: a confirmed write returns the server-confirmed record
\* unless it is a delete action, which returns void
C10_ConfirmedWriteReturnsRecord ==
    (last.kind = "action" /\ last.error = Null)
    => IF last.name \in DeleteActions THEN last.outcome.value = Undefined
       ELSE /\ last.outcome.value # Null /\ last.outcome.value # Undefined
            /\ DataRows(last.outcome.value) \subseteq db[feedTable]

\* C10 amended: a confirmed write returns the server-confirmed record,
\* except for the delete actions, updatePlayerPoints and
\* updateReplacementRequest, which return void
C10_ConfirmedWriteReturnsRecordOrVoid ==
    (last.kind = "action" /\ last.error = Null)
    => IF last.name \in VoidActions THEN last.outcome.value = Undefined
       ELSE /\ last.outcome.value # Null /\ last.outcome.value # Undefined
            /\ last.outcome.value = last.data
            /\ DataRows(last.outcome.value) # {}
            /\ DataRows(last.outcome.value) \subseteq db[feedTable]

\* updateEvent confirmed: the caller holds the row as the gateway stored it
C10_Witness ==
    /\ last.kind = "action" /\ last.error = Null
    /\ last.name = "updateEvent"
    /\ last.outcome.value \in db["events"]

\* C11: after logout() has finished, the identity is null, also when the
\* gateway's sign-out failed
C11_LogoutClearsIdentity ==
    last.kind = "logout" => user = Null

\* a logout whose sign-out the gateway refused, by an authenticated user
C11_Witness ==
    /\ last.kind = "logout" /\ last.answer.error # Null
    /\ last.held # Null /\ session # Null
    /\ user = Null

\* C12: when register's credential creation fails, no profile insert is
\* issued and the result carries the gateway's credential error message; when
\* it succeeds with a user, the row handed to the profile insert has the
\* identity's id and role PARTICIPANT
C12_RegisterCredentialFirst ==
    [][last'.kind = "register" =>
          /\ last'.signUp.error # Null =>
                /\ ~last'.issued /\ db' = db /\ queue' = queue
                /\ last'.result.error # Null
                /\ last'.result.error.message = last'.signUp.error.message
          /\ (last'.signUp.error = Null /\ last'.signUp.data.user # Null) =>
                /\ last'.issued
                /\ last'.row.id = last'.signUp.data.user.id
                /\ last'.row.role = "PARTICIPANT"
          /\ (last'.signUp.error = Null /\ db' # db) =>
                /\ last'.issued
                /\ db' = [db EXCEPT !["profiles"] = @ \cup {last'.row}]]_vars

\* a registration whose credential creation the gateway refused
C12_Witness ==
    /\ last.kind = "register" /\ last.signUp.error # Null
    /\ last.email \notin credentials
    /\ ~last.issued /\ last.result.error.message = "Failed to fetch"

\* the messages register returns when credential creation failed
CleanFailureMessages ==
    {SignUpAnswer(email, password, outcome).error.message :
        <<email, password, outcome>> \in
            {x \in Ids \X Passwords \X SignUpOutcomes :
                SignUpAnswer(x[1], x[2], x[3]).error # Null}}

\* C13: when credential creation succeeds and the profile insert fails,
\* register's result is an error that no failed credential creation gives,
\* and identity's profile row does not exist afterwards
C13_PartialRegistrationDistinguished ==
    (last.kind = "register" /\ last.signUp.error = Null /\ last.profileError # Null)
    => /\ last.result.error # Null
       /\ last.result.error.message \notin CleanFailureMessages
       /\ last.email \in credentials
       /\ last.email \notin IdsOf(db["profiles"])

\* credentials were created and the profile insert was refused
C13_Witness ==
    /\ last.kind = "register" /\ last.signUp.error = Null
    /\ last.profileError # Null
    /\ last.email \in credentials /\ last.email \notin IdsOf(db["profiles"])

\* C14: updatePassword with an empty password returns a validation error
\* and sends the gateway nothing; with a non-empty one it sends one request
\* and returns the gateway's error message, or no error; it changes neither
\* the identity nor the loading flag
C14_UpdatePasswordValidates ==
    [][last'.kind = "updatePassword" =>
          /\ user' = user /\ authLoading' = authLoading
          /\ last'.password = "" =>
                /\ last'.result = [error |-> [message |-> "Password cannot be empty."]]
                /\ last'.calls = 0 /\ writes' = writes /\ authQueue' = authQueue
          /\ last'.password # "" =>
                /\ last'.calls = 1 /\ writes' = writes + 1
                /\ last'.result.error =
                      IF last'.answer.error # Null
                      THEN [message |-> last'.answer.error.message] ELSE Null]_vars

\* updatePassword("") was called
C14_Witness ==
    /\ last.kind = "updatePassword" /\ last.password = ""
    /\ last.calls = 0 /\ last.result.error # Null

\* C15: login sets neither the identity nor the loading flag; it returns the
\* gateway's error message as it is, or no error; the identity becomes
\* authenticated only when a profile resolution completes
C15_LoginLeavesIdentity ==
    [][/\ last'.kind = "login" =>
             /\ user' = user /\ authLoading' = authLoading
             /\ last'.result.error =
                   IF last'.answer.error # Null
                   THEN [message |-> last'.answer.error.message] ELSE Null
       /\ (user' # user /\ user' # Null) => last'.kind = "resolve"]_vars

\* a login the gateway accepted, the identity still anonymous and the
\* notification on its way
C15_Witness ==
    /\ last.kind = "login" /\ last.answer.error = Null
    /\ user = Null /\ ~authLoading
    /\ authQueue # <<>> /\ authQueue[Len(authQueue)].event = "SIGNED_IN"

\* the notification the latest step finished handling, if it finished one
HandledNotification ==
    \/ last.kind = "notify" /\ last.session = Null
    \/ last.kind = "resolve" /\ last.origin = "notification"

\* C16: a notification clears the loading flag if and only if its kind is
\* INITIAL_SESSION, SIGNED_IN, SIGNED_OUT or USER_UPDATED
C16_NotificationClearsLoading ==
    (authMounted /\ HandledNotification) =>
        IF last.event \in {"INITIAL_SESSION", "SIGNED_IN", "SIGNED_OUT", "USER_UPDATED"}
        THEN ~authLoading
        ELSE authLoading = last.was

\* C17: when a profile resolution completes with no other in flight, the
\* identity is the user made of the session's user and its profile row if
\* the session exists and the row was fetched, and null otherwise
C17_IdentityFromSessionAndProfile ==
    authMounted =>
        /\ (last.kind = "resolve" /\ last.others = 0) =>
              user = IF last.answer.data # Null
                     THEN MakeUser(last.user, last.answer.data) ELSE Null
        /\ (last.kind = "notify" /\ last.session = Null /\ last.others = 0) =>
              user = Null
        /\ (last.kind = "getSession" /\ last.session = Null /\ resolving = <<>>) =>
              user = Null

\* an identity was held, and the one resolution in flight found no profile
\* row or failed to read it
C17_Witness ==
    /\ authMounted
    /\ last.kind = "resolve" /\ last.others = 0
    /\ last.held # Null /\ last.answer.data = Null
    /\ user = Null

\* C18: in every startup of a provider that stays mounted, whatever the
\* session and the profile read give, the loading flag becomes false and
\* stays so; after a session resolution that failed the identity is null
\* and the flag false
C18_StartupEndsLoading ==
    /\ <>[](~authMounted \/ ~authLoading)
    /\ []((authMounted /\ last.kind = "getSession" /\ last.error # Null)
            => (user = Null /\ ~authLoading))

\* the stored session could not be resolved at startup
C18_Witness ==
    /\ authMounted
    /\ last.kind = "getSession" /\ last.error # Null
    /\ user = Null /\ ~authLoading

\* C19: the store's teardown releases the change-feed channel and from then
\* on no change event is handed to the store and the snapshot and its
\* loading flag stay as they are; the Session Manager's teardown
\* unsubscribes the listener and from then on no notification is handed to
\* it and the identity and its loading flag stay as they are
C19_TeardownReleases ==
    [][/\ (mounted /\ ~mounted') => channel' = "removed"
       /\ ~mounted =>
             (last'.kind # "event" /\ state' = state /\ loading' = loading)
       /\ (authMounted /\ ~authMounted') => listener' = "unsubscribed"
       /\ ~authMounted =>
             (last'.kind # "notify" /\ user' = user /\ authLoading' = authLoading)]_vars

\* the store was torn down after its load, with a commit of the table in
\* the snapshot's future: its event was queued or yet to come
C19_Witness ==
    /\ ~mounted /\ channel = "removed" /\ last.kind = "unmount"
    /\ fetchPc = "done" /\ writes > 0
    /\ IdsOf(db[feedTable]) # {r.id : r \in Elements(FeedItems)}

IsPrefix(s, t) == Len(s) <= Len(t) /\ SubSeq(t, 1, Len(s)) = s

\* C20: change events reach the snapshot one at a time and in the order the
\* gateway emitted them: the feed's queue only grows at its end, each
\* delivery takes the oldest event alone and leaves the snapshot as the
\* reconciliation step makes it from the snapshot before, and but for the
\* load's publication nothing else changes the snapshot; so the snapshot
\* after e1..en is the left-to-right fold of the step over e1..en
C20_EventsAppliedInOrder ==
    [][/\ last'.kind = "event" =>
             /\ queue # <<>>
             /\ last'.payload = Head(queue)
             /\ queue' = Tail(queue)
             /\ state' = handleDbChange(state, Head(queue))
       /\ last'.kind \notin {"event", "unmount"} => IsPrefix(queue, queue')
       /\ state' # state => last'.kind \in {"event", "load"}]_vars

\* the seeded row was deleted and inserted anew, and the INSERT event was
\* reconciled, after the load, into a snapshot that did not hold the row
C20_Witness ==
    /\ fetchPc = "done" /\ channel = "joined" /\ queue = <<>>
    /\ writes = 2
    /\ last.kind = "event" /\ last.payload.eventType = "INSERT" /\ ~last.had
    /\ last.payload.new.id = 1
    /\ merged[1].fresh
    /\ last.payload.new \in Elements(FeedItems)

\* the latest step handed the list collection `key` an event of kind `kind`
ListEvent(kind) ==
    /\ last'.kind = "event"
    /\ last'.payload.table \in ListTables
    /\ last'.payload.eventType = kind

\* the elements of a collection but those with id i
Others(items, i) == {e \in Elements(items) : e.id # i}

\* C21: an UPDATE event replaces the element of newRecord's id by newRecord
\* and leaves the collection's length and other elements as they were; when
\* no element has that id, newRecord is appended
C21_UpdateReplacesOrAppends ==
    [][ListEvent("UPDATE") =>
          LET new == last'.payload.new
              before == state[tableKeyMap[last'.payload.table]]
              after == state'[tableKeyMap[last'.payload.table]]
          IN /\ new \in Elements(after) /\ CountId(after, new.id) = 1
             /\ Others(after, new.id) = Others(before, new.id)
             /\ Len(after) = IF last'.had THEN Len(before) ELSE Len(before) + 1]_vars

\* the load gave players [{id 1, points []}] and an UPDATE of player 1 with
\* points [10, 20] was reconciled
C21_Witness ==
    /\ feedTable = "players" /\ fetchPc = "done"
    /\ last.kind = "event" /\ last.payload.eventType = "UPDATE" /\ last.had
    /\ last.payload.new = [id |-> 1, points |-> <<10, 20>>]
    /\ state.players = <<[id |-> 1, points |-> <<10, 20>>]>>

\* C22: a DELETE event removes the element of oldRecord's id and no other;
\* when no element has that id the collection stays as it is
C22_DeleteRemovesOnlyMatch ==
    [][ListEvent("DELETE") =>
          LET i == last'.payload.old.id
              before == state[tableKeyMap[last'.payload.table]]
              after == state'[tableKeyMap[last'.payload.table]]
          IN /\ CountId(after, i) = 0
             /\ Others(after, i) = Others(before, i)
             /\ Len(after) = Len(before) - CountId(before, i)
             /\ ~last'.had => after = before]_vars

\* a DELETE event for an id the collection, not empty, did not hold
C22_Witness ==
    /\ last.kind = "event" /\ last.payload.eventType = "DELETE" /\ ~last.had
    /\ Len(FeedItems) > 0
    /\ CountId(FeedItems, last.payload.old.id) = 0

\* C23: an INSERT or UPDATE event of site_settings puts newRecord in place
\* of the siteSettings singleton and leaves the nine list collections as
\* they were; a DELETE event of site_settings leaves the snapshot as it was
C23_SiteSettingsReplaced ==
    [][(last'.kind = "event" /\ last'.payload.table = "site_settings") =>
          IF last'.payload.eventType \in {"INSERT", "UPDATE"}
          THEN /\ state'.siteSettings = last'.payload.new
               /\ \A key \in ListKeys : state'[key] = state[key]
          ELSE state' = state]_vars

\* an UPDATE event of site_settings changed the singleton the load had given
C23_Witness ==
    /\ fetchPc = "done"
    /\ last.kind = "event" /\ last.payload.table = "site_settings"
    /\ last.payload.eventType = "UPDATE"
    /\ state.siteSettings = last.payload.new
    /\ state.siteSettings.showParticipantTeams = FALSE

\* C24: fetchData is called once in the store's lifetime: once the load has
\* been issued no other is, also when it failed, and the loading flag it
\* cleared stays false
C24_LoadedOnce ==
    [][/\ fetchPc # "idle" => last'.kind # "mount"
       /\ fetchPc \in {"resolved", "done"} => last'.kind # "read"
       /\ fetchPc = "done" => fetchPc' = "done"
       /\ (fetchPc' = "done" /\ mounted') => ~loading']_vars

\* a load that failed, and a change event reconciled after it
C24_Witness ==
    /\ mounted /\ fetchPc = "done" /\ ~loading
    /\ state.siteSettings = INITIAL_STATE.siteSettings
    /\ last.kind = "event" /\ ~last.had
    /\ Len(FeedItems) = 1 /\ IdsOf(db[feedTable]) = {1, 2}

\* C26: an INSERT event whose id the collection already holds leaves the
\* element of that id, and the collection, as they were, also when
\* newRecord differs from the element
C26_InsertNeverOverwrites ==
    [][(ListEvent("INSERT") /\ last'.had) =>
          LET key == tableKeyMap[last'.payload.table]
          IN /\ state'[key] = state[key]
             /\ \A e \in Elements(state'[key]) :
                   e.id = last'.payload.new.id => e \in Elements(state[key])]_vars

\* an INSERT event for an id the collection held with another content
C26_Witness ==
    /\ last.kind = "event" /\ last.payload.eventType = "INSERT" /\ last.had
    /\ CountId(FeedItems, last.payload.new.id) = 1
    /\ last.payload.new \notin Elements(FeedItems)

\* the collection each table's events go to
CollectionOf ==
    [profiles |-> "users", events |-> "events", teams |-> "teams",
     players |-> "players", participant_teams |-> "participantTeams",
     replacement_requests |-> "replacementRequests",
     announcements |-> "announcements", chat_messages |-> "chatMessages",
     cnfl_history |-> "cnflHistory", site_settings |-> "siteSettings"]

\* C28: reconciling an event of one table changes at most the collection
\* that table maps to; an event of a table that is none of the ten leaves
\* the snapshot as it was
C28_OnlyOwnCollectionChanges ==
    [][last'.kind = "event" =>
          LET table == last'.payload.table
          IN IF table \in DOMAIN CollectionOf
             THEN \A key \in DOMAIN state :
                     key # CollectionOf[table] => state'[key] = state[key]
             ELSE state' = state]_vars

\* an event of a table the client does not know, delivered after the load
C28_Witness ==
    /\ fetchPc = "done" /\ mounted
    /\ last.kind = "event" /\ last.payload.table \notin DOMAIN CollectionOf
    /\ state = LoadedState([t \in ClientTables |-> CHOOSE r \in ReadResults(t) : TRUE])

\* C29: once the Session Manager's loading flag is false, no step of the
\* provider, its operations or the notifications makes it true again
C29_LoadingMonotone ==
    [][~authLoading => ~authLoading']_vars

\* a notification of a kind that does not clear the flag was handled to its
\* end while the flag was false
C29_Witness ==
    /\ authMounted /\ ~authLoading
    /\ HandledNotification /\ last.event = "TOKEN_REFRESHED" /\ ~last.was

\* C27: register returns success only if a profile row for the new
\* identity was inserted
C27_SuccessMeansProfileInserted ==
    (last.kind = "register" /\ last.result.error = Null)
    => /\ last.issued /\ last.profileError = Null
       /\ last.row \in db["profiles"]

\* C25: when the latest notification handed to the listener carried no
\* session, or logout() has finished after it, and no profile fetch of the
\* startup or of a notification is in flight any more, the identity is
\* anonymous (stated for the states where the gateway holds no session and
\* no notification is waiting either)
C25_SignedOutStaysAnonymous ==
    (/\ authMounted /\ signedOut /\ session = Null
     /\ initPc = "done" /\ resolving = <<>> /\ authQueue = <<>>)
    => user = Null

====
